---- MODULE Spec2Model ----
(***************************************************************************)
(* The LangGraph orchestrator of src/agents/orchestrator/main_orchestrator *)
(* .py: the shared AgentState, the seven node functions, the conditional   *)
(* edge should_continue and the edges of create_workflow.                  *)
(*                                                                         *)
(* Four ways of driving the node functions are modelled:                   *)
(*   Spec        run_orchestrator: the compiled graph started on           *)
(*               initial_state (completed_agents = []).                    *)
(*   SpecInvoke  the compiled graph started on a caller-supplied state     *)
(*               whose completed_agents is already filled.                 *)
(*   SpecCall    the node functions called directly, in any order, on the  *)
(*               state run_orchestrator builds (what a unit test does).    *)
(*   SpecRuns    run_orchestrator called more than once: a peer run        *)
(*               started meanwhile, and a new call after an abort.         *)
(*                                                                         *)
(* The AgentState keys citations, hebrew_content, structure,               *)
(* rebbe_prophecies and errors are written by no node and are left out.    *)
(***************************************************************************)
EXTENDS Integers, Sequences, FiniteSets, TLC

VARIABLES
    task_id,               \* AgentState["task_id"]
    task_type,             \* AgentState["task_type"]
    user_input,            \* AgentState["user_input"]
    current_agent,         \* AgentState["current_agent"]
    sources_found,         \* List[dict]
    english_content,       \* Optional[str]
    verified_links,        \* List[dict]
    broken_links,          \* List[str]
    translations,          \* Optional[dict]
    current_events_mapped, \* Optional[dict]
    messages,              \* List[str]
    completed_agents,      \* List[str]
    final_output,          \* Optional[str]
    now,                   \* the last reading of datetime.utcnow()
    node,                  \* the graph node to run next, or how the run ended
    trace,                 \* history: the node functions that have returned
    last_call,             \* history: the last collaborator call, who made it
                           \* and what came back
    threads                \* the thread_id of every run started so far, this
                           \* run's first: the keys of the checkpoint store

vars == <<task_id, task_type, user_input, current_agent, sources_found,
          english_content, verified_links, broken_links, translations,
          current_events_mapped, messages, completed_agents, final_output,
          now, node, trace, last_call, threads>>

outputs == <<sources_found, english_content, verified_links, broken_links,
             translations, current_events_mapped>>

(***************************************************************************)
(* Bounds of the model.                                                    *)
(***************************************************************************)
MaxClock == 1      \* clock readings are 0..MaxClock
MaxSteps == 12     \* node executions of one graph run
MaxCalls == 4      \* direct calls of node functions in SpecCall
MaxPreset == 2     \* length of a caller-supplied completed_agents
MaxRuns == 2       \* calls of run_orchestrator

(***************************************************************************)
(* Python values.  Optional[T] is None or a value; a dict with string keys *)
(* is the sequence of its <<key, value>> members, so {} is << >>.          *)
(***************************************************************************)
None == [some |-> FALSE]
Some(x) == [some |-> TRUE, val |-> x]
IsNone(o) == ~o.some

In(x, list) == \E i \in 1..Len(list) : list[i] = x

IsPrefix(s, t) == Len(s) <= Len(t) /\ \A i \in 1..Len(s) : s[i] = t[i]

Count(x, list) == Cardinality({i \in 1..Len(list) : list[i] = x})

\* dict.get(key, default) on a key that is present: the stored value, None
\* included; the default is used only when the key is missing, and every key
\* of AgentState is present in initial_state.
DictGet(value, default) == value

(***************************************************************************)
(* Inputs.                                                                 *)
(***************************************************************************)
TaskTypes == {"farbrengen", "source_lookup", "dvar_torah", "shiur"}
UserInputs == {"Chanukah farbrengen", "Shleimus HaAretz"}
AgentNames == {"research", "context", "content", "links", "translation"}

\* What anthropic_client.messages.create gives a node: a reply text, or an
\* exception.  A reply that a node parses is either the JSON object the
\* prompt asks for or text json.loads rejects.
NetworkError == [kind |-> "raise", text |-> "", parsed |-> << >>]
Malformed == [kind |-> "text", text |-> "not json", parsed |-> << >>]
JsonReply(t, members) == [kind |-> "json", text |-> t, parsed |-> members]
TextReply(t) == [kind |-> "text", text |-> t, parsed |-> << >>]

ResearchReplies ==
    {JsonReply("plan", << <<"search_terms", <<"term1">>>> >>), Malformed, NetworkError}
ContextReplies ==
    {JsonReply("events0", << <<"current_events", << >>>> >>),
     JsonReply("events1", << <<"current_events", <<"event1">>>> >>),
     Malformed, NetworkError}
ContentReplies == {TextReply(""), TextReply("talk"), NetworkError}

\* A parser that lets text that is no JSON through.
JsonLoadsRaises_lenient(reply) == reply.kind = "raise"

\* json.loads(response.content[0].text) raises on a transport failure and on
\* text that is no JSON.
JsonLoadsRaises(reply) == reply.kind # "json"
CreateRaises(reply) == reply.kind = "raise"

(***************************************************************************)
(* Faulty routers, for checking that the claims tell them from the code's. *)
(***************************************************************************)
\* farbrengen drafts before it enriches: the context and content tests swapped.
NextAgent_swapped(tt, completed, cur) ==
    IF tt = "farbrengen" THEN
        IF ~In("research", completed) THEN "research"
        ELSE IF ~In("content", completed) THEN "content"
        ELSE IF ~In("context", completed) THEN "context"
        ELSE IF ~In("links", completed) THEN "links"
        ELSE "complete"
    ELSE IF tt = "source_lookup" THEN
        IF ~In("research", completed) THEN "research"
        ELSE IF ~In("links", completed) THEN "links"
        ELSE "complete"
    ELSE IF tt = "dvar_torah" THEN
        IF ~In("research", completed) THEN "research"
        ELSE IF ~In("content", completed) THEN "content"
        ELSE IF ~In("translation", completed) THEN "translation"
        ELSE "complete"
    ELSE cur

StepsOf(tt) ==
    IF tt = "farbrengen" THEN <<"research", "context", "content", "links">>
    ELSE IF tt = "source_lookup" THEN <<"research", "links">>
    ELSE IF tt = "dvar_torah" THEN <<"research", "content", "translation">>
    ELSE << >>

\* Selection by the number of completed steps instead of by their names.
NextAgent_byPosition(tt, completed, cur) ==
    IF StepsOf(tt) = << >> THEN cur
    ELSE IF Len(completed) < Len(StepsOf(tt)) THEN StepsOf(tt)[Len(completed) + 1]
    ELSE "complete"

\* Selection of the step after the one current_agent names.
NextAgent_advance(tt, completed, cur) ==
    IF StepsOf(tt) = << >> THEN cur
    ELSE IF ~In(cur, StepsOf(tt)) THEN StepsOf(tt)[1]
    ELSE IF cur = StepsOf(tt)[Len(StepsOf(tt))] THEN "complete"
    ELSE StepsOf(tt)[1 + CHOOSE i \in 1..Len(StepsOf(tt)) : StepsOf(tt)[i] = cur]

\* source_lookup with a content test copied in from another branch.
NextAgent_leaky(tt, completed, cur) ==
    IF tt = "farbrengen" THEN
        IF ~In("research", completed) THEN "research"
        ELSE IF ~In("context", completed) THEN "context"
        ELSE IF ~In("content", completed) THEN "content"
        ELSE IF ~In("links", completed) THEN "links"
        ELSE "complete"
    ELSE IF tt = "source_lookup" THEN
        IF ~In("research", completed) THEN "research"
        ELSE IF ~In("content", completed) THEN "content"
        ELSE IF ~In("links", completed) THEN "links"
        ELSE "complete"
    ELSE IF tt = "dvar_torah" THEN
        IF ~In("research", completed) THEN "research"
        ELSE IF ~In("content", completed) THEN "content"
        ELSE IF ~In("translation", completed) THEN "translation"
        ELSE "complete"
    ELSE cur

\* dvar_torah declared complete once the content is drafted.
NextAgent_early(tt, completed, cur) ==
    IF tt = "farbrengen" THEN
        IF ~In("research", completed) THEN "research"
        ELSE IF ~In("context", completed) THEN "context"
        ELSE IF ~In("content", completed) THEN "content"
        ELSE IF ~In("links", completed) THEN "links"
        ELSE "complete"
    ELSE IF tt = "source_lookup" THEN
        IF ~In("research", completed) THEN "research"
        ELSE IF ~In("links", completed) THEN "links"
        ELSE "complete"
    ELSE IF tt = "dvar_torah" THEN
        IF ~In("research", completed) THEN "research"
        ELSE IF ~In("content", completed) THEN "content"
        ELSE "complete"
    ELSE cur

(***************************************************************************)
(* orchestrator_node: the if/elif chains of lines 69-97.  A task type with *)
(* no branch leaves current_agent as it was.                               *)
(***************************************************************************)
NextAgent(tt, completed, cur) ==
    IF tt = "farbrengen" THEN
        IF ~In("research", completed) THEN "research"
        ELSE IF ~In("context", completed) THEN "context"
        ELSE IF ~In("content", completed) THEN "content"
        ELSE IF ~In("links", completed) THEN "links"
        ELSE "complete"
    ELSE IF tt = "source_lookup" THEN
        IF ~In("research", completed) THEN "research"
        ELSE IF ~In("links", completed) THEN "links"
        ELSE "complete"
    ELSE IF tt = "dvar_torah" THEN
        IF ~In("research", completed) THEN "research"
        ELSE IF ~In("content", completed) THEN "content"
        ELSE IF ~In("translation", completed) THEN "translation"
        ELSE "complete"
    ELSE cur

\* A router that files a task type it has no branch for under farbrengen.
orchestrator_node_retype ==
    /\ messages' = Append(messages, <<"[ORCHESTRATOR] Starting task:", task_type>>)
    /\ task_type' = IF task_type \in {"farbrengen", "source_lookup", "dvar_torah"}
                    THEN task_type ELSE "farbrengen"
    /\ current_agent' = NextAgent(task_type', completed_agents, current_agent)
    /\ UNCHANGED <<task_id, user_input, outputs, completed_agents,
                   final_output, now>>

\* state["messages"] = [note] instead of an append.
orchestrator_node_resetlog ==
    /\ messages' = << <<"[ORCHESTRATOR] Starting task:", task_type>> >>
    /\ current_agent' = NextAgent(task_type, completed_agents, current_agent)
    /\ UNCHANGED <<task_id, task_type, user_input, outputs, completed_agents,
                   final_output, now>>

orchestrator_node ==
    /\ messages' = Append(messages, <<"[ORCHESTRATOR] Starting task:", task_type>>)
    /\ current_agent' = NextAgent(task_type, completed_agents, current_agent)
    /\ UNCHANGED <<task_id, task_type, user_input, outputs, completed_agents,
                   final_output, now>>

\* An executor that forgets to record itself.
MarkCompleted_skip(completed, name) == completed

\* completed_agents.insert(0, name)
MarkCompleted_prepend(completed, name) == <<name>> \o completed

\* state["completed_agents"].append(name)
MarkCompleted(completed, name) == Append(completed, name)

(***************************************************************************)
(* research_agent_node                                                     *)
(***************************************************************************)
\* A search that finds nothing.
ResearchSources_empty == << >>

ResearchSources ==
    << [type |-> "sicha",
        citation |-> "Sichos Kodesh 5747, Behar-Bechukosai",
        topic |-> "Shleimus HaAretz",
        url |-> Some("https://www.chabad.org/therebbe/article_cdo/aid/4463154"),
        page |-> "478-482"] >>

research_agent_node(reply) ==
    /\ UNCHANGED <<task_id, task_type, user_input, current_agent, english_content,
                   verified_links, broken_links, translations,
                   current_events_mapped, final_output, now>>
    /\ IF JsonLoadsRaises(reply)
       THEN /\ messages' = Append(messages, <<"[RESEARCH AGENT] Starting source search...", "">>)
            /\ UNCHANGED <<sources_found, completed_agents>>
       ELSE /\ sources_found' = ResearchSources
            /\ messages' = messages \o
                   << <<"[RESEARCH AGENT] Starting source search...", "">>,
                      <<"[RESEARCH AGENT] Found sources", ToString(Len(ResearchSources))>> >>
            /\ completed_agents' = MarkCompleted(completed_agents, "research")

(***************************************************************************)
(* content_generation_node                                                 *)
(***************************************************************************)
content_generation_node(reply) ==
    /\ UNCHANGED <<task_id, task_type, user_input, current_agent, sources_found,
                   verified_links, broken_links, translations,
                   current_events_mapped, final_output, now>>
    /\ IF CreateRaises(reply)
       THEN /\ messages' = Append(messages, <<"[CONTENT AGENT] Generating content...", "">>)
            /\ UNCHANGED <<english_content, completed_agents>>
       ELSE /\ english_content' = Some(reply.text)
            /\ messages' = messages \o
                   << <<"[CONTENT AGENT] Generating content...", "">>,
                      <<"[CONTENT AGENT] Content generated successfully", "">> >>
            /\ completed_agents' = MarkCompleted(completed_agents, "content")

(***************************************************************************)
(* link_verification_node                                                  *)
(***************************************************************************)
RECURSIVE UrlsToCheck(_)
UrlsToCheck(sources) ==
    IF sources = << >> THEN << >>
    ELSE (IF Head(sources).url.some THEN <<Head(sources).url.val>> ELSE << >>)
         \o UrlsToCheck(Tail(sources))

VerifiedLinks(urls, t) ==
    [i \in 1..Len(urls) |-> [url |-> urls[i], status |-> "ACTIVE", checked_at |-> t]]

\* A link check that takes the checked sources out of sources_found.
link_verification_node_clobber(t) ==
    /\ now' = t
    /\ verified_links' = VerifiedLinks(UrlsToCheck(DictGet(sources_found, << >>)), t)
    /\ broken_links' = << >>
    /\ messages' = messages \o
           << <<"[LINK VERIFICATION AGENT] Checking URLs...", "">>,
              <<"[LINK VERIFICATION] Verified links",
                ToString(Len(UrlsToCheck(DictGet(sources_found, << >>))))>> >>
    /\ completed_agents' = MarkCompleted(completed_agents, "links")
    /\ sources_found' = << >>
    /\ UNCHANGED <<task_id, task_type, user_input, current_agent,
                   english_content, translations, current_events_mapped,
                   final_output>>

link_verification_node(t) ==
    /\ now' = t
    /\ verified_links' = VerifiedLinks(UrlsToCheck(DictGet(sources_found, << >>)), t)
    /\ broken_links' = << >>
    /\ messages' = messages \o
           << <<"[LINK VERIFICATION AGENT] Checking URLs...", "">>,
              <<"[LINK VERIFICATION] Verified links",
                ToString(Len(UrlsToCheck(DictGet(sources_found, << >>))))>> >>
    /\ completed_agents' = MarkCompleted(completed_agents, "links")
    /\ UNCHANGED <<task_id, task_type, user_input, current_agent, sources_found,
                   english_content, translations, current_events_mapped,
                   final_output>>

(***************************************************************************)
(* context_enrichment_node                                                 *)
(***************************************************************************)
context_enrichment_node(reply) ==
    /\ UNCHANGED <<task_id, task_type, user_input, current_agent, sources_found,
                   english_content, verified_links, broken_links, translations,
                   final_output, now>>
    /\ IF JsonLoadsRaises(reply)
       THEN /\ messages' = Append(messages, <<"[CONTEXT AGENT] Mapping current events...", "">>)
            /\ UNCHANGED <<current_events_mapped, completed_agents>>
       ELSE /\ current_events_mapped' = Some(reply.parsed)
            /\ messages' = messages \o
                   << <<"[CONTEXT AGENT] Mapping current events...", "">>,
                      <<"[CONTEXT AGENT] Events mapped successfully", "">> >>
            /\ completed_agents' = MarkCompleted(completed_agents, "context")

(***************************************************************************)
(* translation_node                                                        *)
(***************************************************************************)
TranslationTable ==
    << <<"hebrew_to_english", << >>>>,
       <<"english_to_hebrew", << >>>>,
       <<"chassidic_terms", <<"shleimus", "farbrengen", "sicha", "igros kodesh">>>> >>

translation_node ==
    /\ translations' = Some(TranslationTable)
    /\ completed_agents' = MarkCompleted(completed_agents, "translation")
    /\ messages' = messages \o
           << <<"[TRANSLATION AGENT] Processing translations...", "">>,
              <<"[TRANSLATION AGENT] Translations complete", "">> >>
    /\ UNCHANGED <<task_id, task_type, user_input, current_agent, sources_found,
                   english_content, verified_links, broken_links,
                   current_events_mapped, final_output, now>>

(***************************************************************************)
(* completion_node                                                         *)
(***************************************************************************)
\* json.dumps(obj, indent=2): the text of obj; None is written null, so the
\* text tells None from "" and from {}.
JsonDumps(obj) == [json |-> obj]

AssembleOutput(t) ==
    [task_type |-> task_type,
     sources |-> DictGet(sources_found, << >>),
     content |-> DictGet(english_content, Some("")),
     verified_links |-> DictGet(verified_links, << >>),
     context |-> DictGet(current_events_mapped, Some(<< >>)),
     generated_at |-> t]

completion_node(t) ==
    /\ now' = t
    /\ messages' = Append(messages, <<"[COMPLETION] Assembling final output...", "">>)
    /\ final_output' = Some(JsonDumps(AssembleOutput(t)))
    /\ current_agent' = "done"
    /\ UNCHANGED <<task_id, task_type, user_input, outputs, completed_agents>>

(***************************************************************************)
(* should_continue and the edges of create_workflow.                       *)
(***************************************************************************)
END == "END"

should_continue(current) ==
    IF current = "done" THEN END
    ELSE IF current = "complete" THEN "completion"
    ELSE current

\* The mapping given to add_conditional_edges: a result of should_continue
\* that is no key of it has no destination, and the graph run raises.
PathMapKeys == {"research", "content", "links", "context", "translation", "completion", END}

ConditionalEdge(current) ==
    IF should_continue(current) \in PathMapKeys THEN should_continue(current)
    ELSE "error"

\* workflow.add_edge(agent, "orchestrator") for the five agents
AgentEdge == "orchestrator"

\* completion wired back to the orchestrator like the five agents.
CompletionEdge_loop == "orchestrator"

\* workflow.add_edge("completion", END)
CompletionEdge == END

\* workflow.set_entry_point("orchestrator")
EntryPoint == "orchestrator"

(***************************************************************************)
(* run_orchestrator: initial_state, and the state a caller may hand to the *)
(* compiled graph instead.                                                 *)
(***************************************************************************)
\* anthropic_client.messages.create as seen from the node that calls it.
NoCall == [by |-> "none", kind |-> "none"]
Called(name, reply) == last_call' = [by |-> name, kind |-> reply.kind]

\* f"{task_type}_{datetime.utcnow().timestamp()}"
TaskId(tt, t) == <<tt, ToString(t)>>

InitialState(completed) ==
    /\ task_type \in TaskTypes
    /\ user_input \in UserInputs
    /\ now \in 0..MaxClock
    /\ task_id = TaskId(task_type, now)
    /\ threads = <<task_id>>
    /\ current_agent = "orchestrator"
    /\ sources_found = << >>
    /\ english_content = None
    /\ verified_links = << >>
    /\ broken_links = << >>
    /\ translations = None
    /\ current_events_mapped = None
    /\ messages = << >>
    /\ completed_agents = completed
    /\ final_output = None
    /\ trace = << >>
    /\ last_call = NoCall

RECURSIVE SeqsUpTo(_, _)
SeqsUpTo(S, n) ==
    IF n = 0 THEN {<< >>}
    ELSE SeqsUpTo(S, n - 1) \cup
         {Append(s, x) : s \in {q \in SeqsUpTo(S, n - 1) : Len(q) = n - 1}, x \in S}

Init == InitialState(<< >>) /\ node = EntryPoint

InitInvoke ==
    /\ \E completed \in SeqsUpTo(AgentNames, MaxPreset) : InitialState(completed)
    /\ node = EntryPoint

InitCall == InitialState(<< >>) /\ node = "caller"

(***************************************************************************)
(* One execution of each node function: a function that raises ends the    *)
(* run ("aborted") and is not recorded in trace; one that returns hands    *)
(* over to the node named by `after`.                                      *)
(***************************************************************************)
Returns(name, after) ==
    trace' = Append(trace, name) /\ node' = after /\ UNCHANGED threads
Raises == trace' = trace /\ node' = "aborted" /\ UNCHANGED threads

ExecOrchestrator(after) ==
    /\ orchestrator_node
    /\ UNCHANGED last_call
    /\ Returns("orchestrator", after)

ExecResearch(after) ==
    \E reply \in ResearchReplies :
        /\ research_agent_node(reply)
        /\ Called("research", reply)
        /\ IF JsonLoadsRaises(reply) THEN Raises ELSE Returns("research", after)

ExecContent(after) ==
    \E reply \in ContentReplies :
        /\ content_generation_node(reply)
        /\ Called("content", reply)
        /\ IF CreateRaises(reply) THEN Raises ELSE Returns("content", after)

ExecLinks(after) ==
    \E t \in now..MaxClock :
        /\ link_verification_node(t)
        /\ UNCHANGED last_call
        /\ Returns("links", after)

ExecContext(after) ==
    \E reply \in ContextReplies :
        /\ context_enrichment_node(reply)
        /\ Called("context", reply)
        /\ IF JsonLoadsRaises(reply) THEN Raises ELSE Returns("context", after)

ExecTranslation(after) ==
    /\ translation_node
    /\ UNCHANGED last_call
    /\ Returns("translation", after)

ExecCompletion(after) ==
    \E t \in now..MaxClock :
        /\ completion_node(t)
        /\ UNCHANGED last_call
        /\ Returns("completion", after)

(***************************************************************************)
(* The compiled graph: the node at `node` runs, then its edge is followed. *)
(***************************************************************************)
AtNode(n) == node = n /\ Len(trace) < MaxSteps

OrchestratorStep ==
    /\ AtNode("orchestrator")
    /\ ExecOrchestrator(ConditionalEdge(current_agent'))

ResearchStep == AtNode("research") /\ ExecResearch(AgentEdge)
ContentStep == AtNode("content") /\ ExecContent(AgentEdge)
LinksStep == AtNode("links") /\ ExecLinks(AgentEdge)
ContextStep == AtNode("context") /\ ExecContext(AgentEdge)
TranslationStep == AtNode("translation") /\ ExecTranslation(AgentEdge)
CompletionStep == AtNode("completion") /\ ExecCompletion(CompletionEdge)

Next ==
    \/ OrchestratorStep
    \/ ResearchStep
    \/ ContentStep
    \/ LinksStep
    \/ ContextStep
    \/ TranslationStep
    \/ CompletionStep

Spec == Init /\ [][Next]_vars

SpecInvoke == InitInvoke /\ [][Next]_vars

\* The graph runs a node whenever one is due: nothing else is scheduled.
SpecFair == Init /\ [][Next]_vars /\ WF_vars(Next)

(***************************************************************************)
(* run_orchestrator called more than once.  Every call builds a fresh      *)
(* initial_state under a task_id made of the task type and the clock       *)
(* reading, and starts the graph on it under that thread_id; it takes no   *)
(* task_id and reads no earlier checkpoint.                                *)
(***************************************************************************)
\* Another run is started while this one is under way: only the thread_id it
\* takes in the checkpoint store is followed.
StartPeer ==
    /\ Len(threads) < MaxRuns
    /\ \E tt \in TaskTypes, t \in now..MaxClock :
           /\ now' = t
           /\ threads' = Append(threads, TaskId(tt, t))
    /\ UNCHANGED <<task_id, task_type, user_input, current_agent, outputs,
                   messages, completed_agents, final_output, node, trace,
                   last_call>>

\* The caller of a run that aborted calls run_orchestrator again for the same
\* task.
Rerun ==
    /\ node = "aborted"
    /\ Len(threads) < MaxRuns
    /\ Len(trace) < MaxSteps
    /\ \E t \in now..MaxClock :
           /\ now' = t
           /\ task_id' = TaskId(task_type, t)
           /\ threads' = Append(threads, TaskId(task_type, t))
    /\ current_agent' = "orchestrator"
    /\ sources_found' = << >>
    /\ english_content' = None
    /\ verified_links' = << >>
    /\ broken_links' = << >>
    /\ translations' = None
    /\ current_events_mapped' = None
    /\ messages' = << >>
    /\ completed_agents' = << >>
    /\ final_output' = None
    /\ last_call' = NoCall
    /\ node' = EntryPoint
    /\ trace' = Append(trace, "run_orchestrator")
    /\ UNCHANGED <<task_type, user_input>>

NextRuns ==
    \/ Next
    \/ StartPeer
    \/ Rerun

SpecRuns == Init /\ [][NextRuns]_vars

(***************************************************************************)
(* The node functions called directly.                                     *)
(***************************************************************************)
Caller == node = "caller" /\ Len(trace) < MaxCalls

CallOrchestrator == Caller /\ ExecOrchestrator("caller")
CallResearch == Caller /\ ExecResearch("caller")
CallContent == Caller /\ ExecContent("caller")
CallLinks == Caller /\ ExecLinks("caller")
CallContext == Caller /\ ExecContext("caller")
CallTranslation == Caller /\ ExecTranslation("caller")
CallCompletion == Caller /\ ExecCompletion("caller")

NextCall ==
    \/ CallOrchestrator
    \/ CallResearch
    \/ CallContent
    \/ CallLinks
    \/ CallContext
    \/ CallTranslation
    \/ CallCompletion

SpecCall == InitCall /\ [][NextCall]_vars

(***************************************************************************)
(* What the claims speak of.                                               *)
(***************************************************************************)
\* The checklists as the specification declares them.
ChecklistTypes == {"farbrengen", "source_lookup", "dvar_torah"}

Checklist(tt) ==
    CASE tt = "farbrengen" -> <<"research", "context", "content", "links">>
      [] tt = "source_lookup" -> <<"research", "links">>
      [] tt = "dvar_torah" -> <<"research", "content", "translation">>
      [] OTHER -> << >>

RECURSIVE Filter(_, _)
Filter(list, keep) ==
    IF list = << >> THEN << >>
    ELSE (IF Head(list) \in keep THEN <<Head(list)>> ELSE << >>) \o Filter(Tail(list), keep)

\* The step executors that have run, in the order they ran.
StepsRun == Filter(trace, AgentNames)

RouterCalls == Count("orchestrator", trace)

\* The router and the executors take turns, the router first.
Alternates ==
    \A i \in 1..Len(trace) : (trace[i] = "orchestrator") <=> (i % 2 = 1)

\* C1: in a run started by run_orchestrator on a task type with a checklist,
\* the router and the executors alternate, the executors that have run are the
\* first steps of the checklist in the declared order (so none ran twice), the
\* step the router selects is the next one of the checklist, and 'complete' is
\* selected only when every step of the checklist has run.
C1_ChecklistInOrder ==
    task_type \in ChecklistTypes =>
        /\ Alternates
        /\ IsPrefix(StepsRun, Checklist(task_type))
        /\ completed_agents = StepsRun
        /\ node \in AgentNames =>
               /\ Len(StepsRun) < Len(Checklist(task_type))
               /\ node = Checklist(task_type)[Len(StepsRun) + 1]
               /\ current_agent = node
        /\ (current_agent \in {"complete", "done"} \/ node \in {"completion", END}) =>
               StepsRun = Checklist(task_type)

C1_Witness ==
    /\ task_type = "source_lookup"
    /\ trace = <<"orchestrator", "research", "orchestrator", "links", "orchestrator">>
    /\ current_agent = "complete"
    /\ node = "completion"

\* C2: on a task type without a checklist the first router invocation selects
\* 'complete': no executor runs and the run goes on to completion_node and
\* END, never ending in an error.
C2_UnknownTypeCompletes ==
    (task_type \notin ChecklistTypes /\ trace # << >>) =>
        /\ StepsRun = << >>
        /\ node \in {"completion", END}

\* C3: a run on a task type whose checklist has N steps never invokes
\* orchestrator_node more than N+1 times, reaches END after exactly N+1
\* invocations, and does reach END unless a collaborator call fails.
C3_TerminatesWithinNPlus1 ==
    /\ [](task_type \in ChecklistTypes =>
              /\ RouterCalls <= Len(Checklist(task_type)) + 1
              /\ node = END => RouterCalls = Len(Checklist(task_type)) + 1)
    /\ <>(task_type \in ChecklistTypes => node \in {END, "aborted"})

C3_Witness ==
    /\ task_type = "farbrengen"
    /\ node = END
    /\ RouterCalls = 5

Preset == SubSeq(completed_agents, 1, Len(completed_agents) - Len(StepsRun))

\* The steps of the checklist that the preset entries do not name.
Remaining == Filter(Checklist(task_type), AgentNames \ {Preset[i] : i \in 1..Len(Preset)})

\* C5: the router selects by membership: started on a completed_agents that
\* already holds some names, the graph runs the checklist steps not among them,
\* in checklist order, skips the others, and then selects 'complete' (for
\* farbrengen with 'content' preset: research, context, links, complete).
C5_SelectsByMembership ==
    task_type \in ChecklistTypes =>
        /\ IsPrefix(StepsRun, Remaining)
        /\ node \in AgentNames =>
               /\ Len(StepsRun) < Len(Remaining)
               /\ node = Remaining[Len(StepsRun) + 1]
        /\ (current_agent \in {"complete", "done"} \/ node \in {"completion", END}) =>
               StepsRun = Remaining

C5_Witness ==
    /\ task_type = "farbrengen"
    /\ completed_agents = <<"content", "research", "context", "links">>
    /\ trace = <<"orchestrator", "research", "orchestrator", "context",
                 "orchestrator", "links", "orchestrator">>
    /\ current_agent = "complete"

\* The object completion_node serialised into final_output.
Assembled == final_output.val.json

\* C6: once completion_node has run, the output of every step named in
\* completed_agents is in the assembled final_output.
C6_AssemblesEveryOutput ==
    final_output.some =>
        /\ In("research", completed_agents) => Assembled.sources = sources_found
        /\ In("context", completed_agents) => Assembled.context = current_events_mapped
        /\ In("content", completed_agents) => Assembled.content = english_content
        /\ In("links", completed_agents) => Assembled.verified_links = verified_links
        /\ In("translation", completed_agents) =>
               /\ "translations" \in DOMAIN Assembled
               /\ Assembled["translations"] = translations

\* C7: completion_node called on the state in which only research has run
\* gives the populated sources and the empty defaults "", [] and {} for
\* content, verified_links and context.
C7_EmptyDefaults ==
    trace = <<"research", "completion">> =>
        /\ final_output.some
        /\ Assembled.sources = ResearchSources
        /\ Assembled.content = Some("")
        /\ Assembled.verified_links = << >>
        /\ Assembled.context = Some(<< >>)

\* C8: final_output is None until completion_node has run, completion_node
\* runs at most once in a run and sets it, and no transition changes it after.
C8_FinalOutputSetOnce ==
    /\ [](~In("completion", trace) => IsNone(final_output))
    /\ [](In("completion", trace) => final_output.some)
    /\ [](Count("completion", trace) <= 1)
    /\ [][final_output.some => final_output' = final_output]_vars

C8_Witness ==
    /\ node = END
    /\ final_output.some
    /\ Count("completion", trace) = 1

\* C9: every transition of a run leaves the old completed_agents a prefix of
\* the new one.
C9_AppendOnly == [][IsPrefix(completed_agents, completed_agents')]_vars

C9_Witness ==
    /\ completed_agents = <<"research", "content", "translation">>
    /\ node = END

\* C10: orchestrator_node called twice in a row, no other node function in
\* between, selects the same current_agent the second time and leaves
\* completed_agents as it was.
C10_RouterIdempotent ==
    [][(trace # << >> /\ trace[Len(trace)] = "orchestrator"
            /\ trace' = Append(trace, "orchestrator")) =>
           /\ current_agent' = current_agent
           /\ completed_agents' = completed_agents]_vars

C10_Witness ==
    /\ Len(trace) = 3
    /\ trace[2] = "orchestrator"
    /\ trace[3] = "orchestrator"
    /\ completed_agents = <<"research">>
    /\ current_agent = "content"

\* C11: whenever final_output is set in a run started by run_orchestrator,
\* every step of the task type's checklist is in completed_agents: the graph
\* never assembles a partial result.
C11_NoPartialResult ==
    final_output.some =>
        \A i \in 1..Len(Checklist(task_type)) :
            In(Checklist(task_type)[i], completed_agents)

C11_Witness ==
    /\ final_output.some
    /\ task_type = "dvar_torah"
    /\ completed_agents = <<"research", "content", "translation">>
    /\ current_agent = "done"

\* Whether the output field of a step that calls the collaborator is populated.
Populated(name) ==
    CASE name = "research" -> sources_found # << >>
      [] name = "context" -> current_events_mapped.some
      [] name = "content" -> english_content.some
      [] OTHER -> FALSE

\* What a failed call leaves behind, as the claim describes it.
RunAborted ==
    /\ node = "aborted"
    /\ ~In(last_call.by, completed_agents)
    /\ ~Populated(last_call.by)
    /\ IsNone(final_output)

\* C12 as stated: a collaborator call that raises, or a reply that is no
\* JSON, inside research_agent_node, context_enrichment_node or
\* content_generation_node aborts the run: the step is not recorded, its
\* output is not written and final_output stays unset.
C12_AnyNonJsonReplyAborts ==
    (last_call.by \in {"research", "context", "content"}
        /\ last_call.kind \in {"raise", "text"}) => RunAborted

\* The calls that the code does not survive: one that raises, in any of the
\* three nodes, and a reply that is no JSON in the two nodes that parse it.
CallFailed ==
    \/ last_call.kind = "raise"
    \/ last_call.kind = "text" /\ last_call.by \in {"research", "context"}

\* C12 (amended): a collaborator call that raises inside research_agent_node,
\* context_enrichment_node or content_generation_node, or a reply that is no
\* JSON inside research_agent_node or context_enrichment_node, aborts the run:
\* the failing step is not appended to completed_agents, its output field is
\* not written, no further node runs and final_output is never set.
C12_FailedCallAborts ==
    /\ [](CallFailed => RunAborted)
    /\ [](node = "aborted" => CallFailed)
    /\ [][node # "aborted"]_vars

C12_Witness ==
    /\ node = "aborted"
    /\ last_call = [by |-> "context", kind |-> "text"]
    /\ completed_agents = <<"research">>
    /\ IsNone(current_events_mapped)

\* C13: any two runs, two of the same task type started at the same clock
\* reading included, have distinct task_ids, hence distinct thread keys in
\* the checkpoint store.
C13_DistinctTaskIds ==
    \A i, j \in 1..Len(threads) : i # j => threads[i] # threads[j]

\* The executors that returned before the first abort of the run.
BeforeAbort ==
    IF In("run_orchestrator", trace)
    THEN Filter(SubSeq(trace, 1,
                       (CHOOSE k \in 1..Len(trace) :
                            /\ trace[k] = "run_orchestrator"
                            /\ \A m \in 1..(k - 1) : trace[m] # "run_orchestrator") - 1),
                AgentNames)
    ELSE << >>

\* C14: a run that aborted after some steps completed, once started again,
\* goes on under the same task identifier from its last checkpointed state:
\* the steps completed before the abort are still in completed_agents and none
\* of them runs again.
C14_ResumesFromCheckpoint ==
    BeforeAbort # << >> =>
        /\ task_id = threads[1]
        /\ \A i \in 1..Len(BeforeAbort) : In(BeforeAbort[i], completed_agents)
        /\ \A a \in AgentNames : Count(a, trace) <= 1

\* The node function that has just returned.
Ran(name) == trace' = Append(trace, name)

\* C15: whatever the order in which the node functions are called, an output
\* field changes only in an execution of the step that owns it, and
\* orchestrator_node changes no output field.
C15_OwnFieldsOnly ==
    [][/\ sources_found' # sources_found => Ran("research")
       /\ english_content' # english_content => Ran("content")
       /\ (verified_links' # verified_links \/ broken_links' # broken_links) => Ran("links")
       /\ translations' # translations => Ran("translation")
       /\ current_events_mapped' # current_events_mapped => Ran("context")
       /\ Ran("orchestrator") => UNCHANGED outputs]_vars

C15_Witness ==
    /\ trace = <<"research", "content", "links", "orchestrator">>
    /\ sources_found = ResearchSources
    /\ english_content.some
    /\ verified_links # << >>
    /\ IsNone(current_events_mapped)

\* The step whose completion a progress note reports, "" for any other note.
NoteOwner(msg) ==
    CASE msg[1] = "[RESEARCH AGENT] Found sources" -> "research"
      [] msg[1] = "[CONTEXT AGENT] Events mapped successfully" -> "context"
      [] msg[1] = "[CONTENT AGENT] Content generated successfully" -> "content"
      [] msg[1] = "[LINK VERIFICATION] Verified links" -> "links"
      [] msg[1] = "[TRANSLATION AGENT] Translations complete" -> "translation"
      [] OTHER -> ""

\* The steps whose completion notes are in the log, in the order of the log.
RECURSIVE CompletionNotes(_)
CompletionNotes(log) ==
    IF log = << >> THEN << >>
    ELSE (IF NoteOwner(Head(log)) = "" THEN << >> ELSE <<NoteOwner(Head(log))>>)
         \o CompletionNotes(Tail(log))

\* C16: every transition of a run leaves the old messages a prefix of the new
\* one, and the executors' completion notes stand in messages in the order of
\* the step names in completed_agents.
C16_MessagesInExecutionOrder ==
    /\ [][IsPrefix(messages, messages')]_vars
    /\ [](CompletionNotes(messages) = completed_agents)

C16_Witness ==
    /\ task_type = "farbrengen"
    /\ node = END
    /\ CompletionNotes(messages) = <<"research", "context", "content", "links">>
    /\ Len(messages) = 14

\* C17: every transition of a run (orchestrator_node, each step executor,
\* completion_node) leaves task_id, task_type and user_input as
\* run_orchestrator created them.
C17_IdentityImmutable == [][UNCHANGED <<task_id, task_type, user_input>>]_vars

C17_Witness ==
    /\ node = END
    /\ Len(trace) = 10
    /\ task_id = TaskId(task_type, 0)
    /\ now = 1

\* C18: the router's choice depends on task_type and completed_agents alone:
\* with these two as they are, orchestrator_node sets the same current_agent
\* whether it finds current_agent as run_orchestrator or as completion_node
\* left it.
C18_RouterReadsTypeAndCompleted ==
    \A c \in {"orchestrator", "done"} :
        NextAgent(task_type, completed_agents, c)
            = NextAgent(task_type, completed_agents, current_agent)

\* C19: whatever completed_agents holds when the graph is started, on a task
\* type with a checklist the router selects, and the graph runs, only steps
\* of that checklist.
C19_StaysInChecklist ==
    task_type \in ChecklistTypes =>
        /\ node \in AgentNames => In(node, Checklist(task_type))
        /\ current_agent \in AgentNames => In(current_agent, Checklist(task_type))
        /\ \A i \in 1..Len(StepsRun) : In(StepsRun[i], Checklist(task_type))

C19_Witness ==
    /\ task_type = "source_lookup"
    /\ completed_agents = <<"context", "translation", "research", "links">>
    /\ StepsRun = <<"research", "links">>
    /\ node = END

\* C20: once completion_node has run and set current_agent to 'done' the run
\* is over: no node function runs after it, and orchestrator_node never
\* leaves 'done' in current_agent for should_continue to read, so its
\* 'done' branch is never taken.
C20_CompletionAbsorbing ==
    /\ [][~In("completion", trace)]_vars
    /\ [](In("completion", trace) <=> current_agent = "done")
    /\ [](current_agent = "done" => node = END)
    /\ [][Ran("orchestrator") => should_continue(current_agent') # END]_vars

C20_Witness ==
    /\ current_agent = "done"
    /\ node = END
    /\ trace[Len(trace)] = "completion"
    /\ task_type = "source_lookup"

====
